---- MODULE Spec2Model ----
(***************************************************************************)
(* Kullback-Leibler divergence estimators (kl-divergence notebook) and the *)
(* mixed mutual information estimator (mutual_information notebook).       *)
(*                                                                         *)
(* Numbers.  A number is a reduced fraction <<num, den>> with den > 0.     *)
(* numpy computes in float64: every arithmetic operation returns the       *)
(* exact result rounded to the nearest value with a 53 bit significand,    *)
(* ties to even.  The model keeps that rule and scales the significand     *)
(* down to MantBits bits (prec), so that absorption (a + b = a for b # 0), *)
(* the cause of the "zeros encounter in dQ" diagnostic of kl_div, happens  *)
(* on small inputs.  prec = 0 is arithmetic without rounding.              *)
(***************************************************************************)
EXTENDS Integers, Sequences, FiniteSets, TLC

VARIABLES
    prec,   \* significand width of the arithmetic, 0 = no rounding
    X,      \* caller-owned sample X (sequence of numbers)
    Y,      \* caller-owned sample Y
    nb,     \* the part of the notebooks the session runs: "cdf", "kl", "knn", "mi"
    pc,     \* "idle": between calls; "returned": a call has just finished
    call,   \* the last call: function name and the arguments besides X, Y
    ret,    \* what the last call returned (or the exception it raised)
    out,    \* lines the last call printed
    loc,    \* local variables of the last call, as they were when it ended
    kept    \* results the caller has collected: <<[call, ret], ...>>

vars == <<prec, nb, X, Y, pc, call, ret, out, loc, kept>>

----------------------------------------------------------------------------
(* Bounds of the model *)

MaxLen == 3        \* longest sample of a "cdf" or "mi" session
MaxLenKL == 2      \* longest sample of a "kl" session
MaxLenKNN == 3     \* longest sample S1 of a "knn" session
MantBits == 4
MaxK == 2
MaxBins == 3
MaxRuns == 2       \* results the caller collects in one session

----------------------------------------------------------------------------
(* Fractions *)

Abs(i) == IF i < 0 THEN -i ELSE i

RECURSIVE GCD(_, _)
GCD(a, b) == IF b = 0 THEN a ELSE GCD(b, a % b)

Norm(n, d) ==
    LET g == GCD(Abs(n), Abs(d))
        s == IF (n < 0) # (d < 0) THEN -1 ELSE 1
    IN  IF n = 0 THEN <<0, 1>> ELSE <<s * (Abs(n) \div g), Abs(d) \div g>>

R(i) == <<i, 1>>
Zero == R(0)
One == R(1)
Half == <<1, 2>>

RAdd(a, b) == Norm(a[1] * b[2] + b[1] * a[2], a[2] * b[2])
RSub(a, b) == Norm(a[1] * b[2] - b[1] * a[2], a[2] * b[2])
RMul(a, b) == Norm(a[1] * b[1], a[2] * b[2])
RDiv(a, b) == Norm(a[1] * b[2], a[2] * b[1])
RLt(a, b) == a[1] * b[2] < b[1] * a[2]
RLe(a, b) == a[1] * b[2] <= b[1] * a[2]

RECURSIVE Pow2(_)
Pow2(k) == IF k = 0 THEN 1 ELSE 2 * Pow2(k - 1)

(* a / b (a, b > 0) rounded to an integer, ties to the even one *)
RoundHalfEven(a, b) ==
    LET q == a \div b
        r == a % b
    IN  IF 2 * r < b THEN q
        ELSE IF 2 * r > b THEN q + 1
        ELSE IF q % 2 = 0 THEN q ELSE q + 1

(* a / b (a, b > 0) rounded to a significand below top = 2^p: the quotient *)
(* is scaled by up/down, a power of two, into [top/2, top) and rounded there *)
RECURSIVE FlMag(_, _, _, _, _)
FlMag(a, b, top, up, down) ==
    IF a >= top * b THEN FlMag(a, 2 * b, top, 2 * up, down)
    ELSE IF 2 * a < top * b THEN FlMag(2 * a, b, top, up, 2 * down)
    ELSE Norm(RoundHalfEven(a, b) * up, down)

(* The float nearest to r *)
Fl(r) ==
    IF prec = 0 \/ r[1] = 0 THEN r
    ELSE IF r[1] < 0
    THEN LET m == FlMag(-r[1], r[2], Pow2(prec), 1, 1) IN <<-m[1], m[2]>>
    ELSE FlMag(r[1], r[2], Pow2(prec), 1, 1)

FAdd(a, b) == Fl(RAdd(a, b))
FSub(a, b) == Fl(RSub(a, b))
FMul(a, b) == Fl(RMul(a, b))
FDiv(a, b) == Fl(RDiv(a, b))

----------------------------------------------------------------------------
(* Arrays *)

Last(s) == s[Len(s)]

(* the array with the elements of f, each computed once *)
Arr(f) == f \o <<>>

RECURSIVE SeqMin(_)
SeqMin(s) ==
    IF Len(s) = 1 THEN s[1]
    ELSE LET m == SeqMin(Tail(s)) IN IF RLe(s[1], m) THEN s[1] ELSE m

RECURSIVE SeqMax(_)
SeqMax(s) ==
    IF Len(s) = 1 THEN s[1]
    ELSE LET m == SeqMax(Tail(s)) IN IF RLe(m, s[1]) THEN s[1] ELSE m

RECURSIVE Insert(_, _)
Insert(v, s) ==
    IF s = <<>> THEN <<v>>
    ELSE IF RLe(v, s[1]) THEN <<v>> \o s
    ELSE <<s[1]>> \o Insert(v, Tail(s))

(* ndarray.sort(): ascending *)
RECURSIVE Sort(_)
Sort(s) == IF s = <<>> THEN <<>> ELSE Insert(s[1], Sort(Tail(s)))

(* np.unique: the distinct elements, ascending *)
RECURSIVE Dedup(_)
Dedup(s) ==
    IF Len(s) <= 1 THEN s
    ELSE IF s[1] = s[2] THEN Dedup(Tail(s))
    ELSE <<s[1]>> \o Dedup(Tail(s))

unique(s) == Dedup(Sort(s))

(* np.diff *)
diff(s) == Arr([i \in 1..(Len(s) - 1) |-> FSub(s[i + 1], s[i])])

(* np.cumsum of an integer array *)
RECURSIVE SumTo(_, _)
SumTo(s, i) == IF i = 0 THEN 0 ELSE s[i] + SumTo(s, i - 1)

cumsum(s) == Arr([i \in 1..Len(s) |-> SumTo(s, i)])

(* An array is [data, shared]: its elements, and whether it shares its     *)
(* memory with the array the caller owns.                                  *)
(* np.asarray(a): the same array, no copy made *)
asarray_nocopy(a) == a

(* np.asarray(a, copy=True): a new array that shares no memory with a      *)
asarray_copy(a) == [data |-> a.data, shared |-> FALSE]

(* what the caller's array holds after arr was sorted in place *)
CallerAfterSort(orig, arr) == IF arr.shared THEN Sort(arr.data) ELSE orig

----------------------------------------------------------------------------
(* rle: run length encoding of an array (0-based positions as in numpy) *)

(* np.where(ia[1:] != ia[:-1]) alone, the last index not appended *)
RunEnds_nolast(ia) ==
    LET n == Len(ia)
        ends == {k \in 0..(n - 2) : ia[k + 1] # ia[k + 2]}
        Nth[j \in 1..Cardinality(ends)] ==
            CHOOSE k \in ends : Cardinality({e \in ends : e < k}) = j - 1
    IN  Arr([j \in 1..Cardinality(ends) |-> Nth[j]])

(* i = np.append(np.where(ia[1:] != ia[:-1]), n - 1): last index of each run *)
RunEnds(ia) ==
    LET n == Len(ia)
        ends == {k \in 0..(n - 1) : k = n - 1 \/ ia[k + 1] # ia[k + 2]}
        Nth[j \in 1..Cardinality(ends)] ==
            CHOOSE k \in ends : Cardinality({e \in ends : e < k}) = j - 1
    IN  Arr([j \in 1..Cardinality(ends) |-> Nth[j]])

(* rle with p = np.cumsum(z): the position after each run *)
rle_endpos(inarray) ==
    LET i == RunEnds(inarray)
        z == Arr([j \in 1..Len(i) |-> IF j = 1 THEN i[1] + 1 ELSE i[j] - i[j - 1]])
    IN  [z |-> z, p |-> cumsum(z), v |-> Arr([j \in 1..Len(i) |-> inarray[i[j] + 1]])]

rle(inarray) ==
    LET ia == inarray
        n == Len(ia)
    IN  IF n = 0 THEN [z |-> "None", p |-> "None", v |-> "None"]
        ELSE LET i == RunEnds(ia)
                 \* z = np.diff(np.append(-1, i))
                 z == Arr([j \in 1..Len(i) |-> IF j = 1 THEN i[1] + 1 ELSE i[j] - i[j - 1]])
                 \* p = np.cumsum(np.append(0, z))[:-1]
                 p == Arr([j \in 1..Len(i) |-> SumTo(z, j - 1)])
                 v == Arr([j \in 1..Len(i) |-> ia[i[j] + 1]])
             IN  [z |-> z, p |-> p, v |-> v]

----------------------------------------------------------------------------
(* ecdf: empirical CDF of a sample, evaluated by np.interp *)

None == <<>>
Some(v) == <<v>>

(* the index binary_search_with_guess returns for a key inside            *)
(* [xp[1], xp[n]]: the j with xp[j] <= key < xp[j+1] (n when there is no   *)
(* larger knot), found by the scan numpy uses for short arrays; for the    *)
(* knot arrays ecdf builds the bisection of long arrays returns the same j *)
RECURSIVE Scan(_, _, _)
Scan(key, xp, i) ==
    IF i <= Len(xp) /\ RLe(xp[i], key) THEN Scan(key, xp, i + 1) ELSE i - 1

(* np.interp between the knots j and j+1, or at the knot j *)
interp_at(x, xp, fp, j) ==
    IF j = Len(xp) \/ xp[j] = x THEN fp[j]
    ELSE \* slope = (fp[j+1] - fp[j]) / (xp[j+1] - xp[j])
         FAdd(FMul(FDiv(FSub(fp[j + 1], fp[j]), FSub(xp[j + 1], xp[j])),
                   FSub(x, xp[j])),
              fp[j])

(* np.interp(x, xp, fp, left, right) for one x *)
interp(x, xp, fp, left, right) ==
    IF Len(xp) = 1
    THEN IF RLt(x, xp[1]) THEN left
         ELSE IF RLt(xp[1], x) THEN right ELSE fp[1]
    ELSE IF RLt(Last(xp), x) THEN right
    ELSE IF RLt(x, xp[1]) THEN left
    ELSE interp_at(x, xp, fp, Scan(x, xp, 2))

(* y = np.cumsum(X_rle) / n: the top of each step *)
MidSteps_top(X_rle, n) ==
    LET cs == cumsum(X_rle)
    IN  Arr([i \in 1..Len(X_rle) |-> FDiv(R(cs[i]), R(n))])

(* y = (np.cumsum(X_rle) - 0.5 * X_rle) / n *)
MidSteps(X_rle, n) ==
    LET cs == cumsum(X_rle)
    IN  Arr([i \in 1..Len(X_rle) |->
                FDiv(FSub(R(cs[i]), FMul(Half, R(X_rle[i]))), R(n))])

(* ecdf, lines 122-126: the right limit is attached; the knots of the      *)
(* returned function and what the caller's array holds                     *)
ecdf_right(caller, X_u, y, X_max) ==
    IF X_max # None /\ Last(X_u) # X_max[1]
    THEN [xp |-> X_u \o <<X_max[1]>>, fp |-> y \o <<One>>, caller |-> caller]
    ELSE [xp |-> X_u, fp |-> y, caller |-> caller]

(* ecdf, lines 119-121: the left limit is attached *)
ecdf_left(caller, X_u, y, X_min, X_max) ==
    IF X_min # None /\ X_u[1] # X_min[1]
    THEN ecdf_right(caller, <<X_min[1]>> \o X_u, <<Zero>> \o y, X_max)
    ELSE ecdf_right(caller, X_u, y, X_max)

(* ecdf, lines 109-117: X_u, X_rle and y of the sorted copy X *)
ecdf_steps(caller, Xs, X_u, X_min, X_max) ==
    ecdf_left(caller, X_u,
              MidSteps(IF Len(Xs) # Len(X_u) THEN rle(Xs).z
                       ELSE Arr([i \in 1..Len(Xs) |-> 1]),
                       Len(Xs)),
              X_min, X_max)

(* ecdf, lines 106-107: the copy is sorted in place *)
ecdf_sort(Xarg, arr, X_min, X_max) ==
    ecdf_steps(CallerAfterSort(Xarg.data, arr), Sort(arr.data),
               unique(Sort(arr.data)), X_min, X_max)

(* ecdf(X, X_min, X_max): the knots of the returned function, and what the *)
(* array the caller passed holds afterwards                                *)
ecdf(Xarg, X_min, X_max) == ecdf_sort(Xarg, asarray_copy(Xarg), X_min, X_max)

(* np.interp with left=1, right=0 *)
cdf_swapped(F, x) == interp(x, F.xp, F.fp, One, Zero)

(* the function ecdf returned, at x *)
cdf(F, x) == interp(x, F.xp, F.fp, Zero, One)

(* an array owned by the caller, as passed to a function *)
Caller(a) == [data |-> a, shared |-> TRUE]

----------------------------------------------------------------------------
(* kl_div: Perez-Cruz estimator *)

(* indices of s, ascending, that satisfy the mask *)
RECURSIVE Where(_, _)
Where(mask, i) ==
    IF i > Len(mask) THEN <<>>
    ELSE (IF mask[i] THEN <<i>> ELSE <<>>) \o Where(mask, i + 1)

Count(mask) == Len(Where(mask, 1))

(* A returned estimate is [kind |-> "nan"], [kind |-> "inf"] or              *)
(* Num(c, terms, n): the number max(c + sum of t.w * log(t.arg), 0) over     *)
(* the terms t; n is the divisor of the estimator.  Logarithms are kept as   *)
(* written, never evaluated; with no terms the number is max(c, 0).          *)
NaN == [kind |-> "nan"]
PlusInf == [kind |-> "inf"]
Num(c, terms, n) == [kind |-> "num", c |-> c, terms |-> terms, n |-> n]
Term(w, arg) == [w |-> w, arg |-> arg]

(* max(result, 0) with result = np.log(odds).sum() / n - 1 *)
kl_result(odds, n) ==
    IF n = 0 THEN NaN                              \* 0.0 / 0 is nan, max(nan, 0) is nan
    ELSE IF \E i \in 1..Len(odds) : odds[i][1] < 0 THEN NaN   \* log of a negative
    ELSE Num(R(-1), Arr([i \in 1..Len(odds) |-> Term(<<1, n>>, odds[i])]), n)

(* the diagnostic with the number of points kept, mask_dQ.sum() *)
instab_report_kept(num_instab, mask_dQ) ==
    IF num_instab = "warning" /\ Count(mask_dQ) # 0
    THEN <<[msg |-> "point removed due to zeros encounter in dQ",
            problems |-> Count(mask_dQ)]>>
    ELSE <<>>

(* the diagnostic of kl_div: printed when num_instab is "warning" and some  *)
(* dQ is zero, with the number of such points                              *)
instab_report(num_instab, mask_dQ) ==
    LET problems == Len(mask_dQ) - Count(mask_dQ)      \* (~mask_dQ).sum()
    IN  IF num_instab = "warning" /\ problems # 0
        THEN <<[msg |-> "point removed due to zeros encounter in dQ",
                problems |-> problems]>>
        ELSE <<>>

(* kl_div with n = len(odds): the points with dP = 0 not counted *)
kl_div_odds_kept(P, Q, e, dP, dQ, mask_dP, printed, idx) ==
    [raised |-> "none",
     value |-> kl_result(Arr([j \in 1..Len(idx) |-> FDiv(dP[idx[j]], dQ[idx[j]])]),
                         Len(idx)),
     printed |-> printed,
     dP |-> dP, dQ |-> dQ, eps |-> Some(e),
     n |-> Len(idx),
     callerX |-> P.caller, callerY |-> Q.caller]

(* kl_div, lines 193-199: odds, n and the floored result *)
kl_div_odds(P, Q, e, dP, dQ, mask_dP, printed, idx) ==
    [raised |-> "none",
     value |-> kl_result(Arr([j \in 1..Len(idx) |-> FDiv(dP[idx[j]], dQ[idx[j]])]),
                         Len(idx) + (Len(dP) - Count(mask_dP))),
     printed |-> printed,
     dP |-> dP, dQ |-> dQ, eps |-> Some(e),
     n |-> Len(idx) + (Len(dP) - Count(mask_dP)),
     callerX |-> P.caller, callerY |-> Q.caller]

(* kl_div, lines 181-190: the masks and the diagnostic *)
kl_div_masks(P, Q, e, dP, dQ, mask_dP, mask_dQ, num_instab) ==
    kl_div_odds(P, Q, e, dP, dQ, mask_dP, instab_report(num_instab, mask_dQ),
                Where(Arr([i \in 1..Len(dP) |-> mask_dP[i] /\ mask_dQ[i]]), 1))

(* kl_div, lines 178-183: dP, dQ and where they are not zero *)
kl_div_diffs(P, Q, e, dP, dQ, num_instab) ==
    kl_div_masks(P, Q, e, dP, dQ,
                 Arr([i \in 1..Len(dP) |-> dP[i] # Zero]),
                 Arr([i \in 1..Len(dQ) |-> dQ[i] # Zero]),
                 num_instab)

(* kl_div, lines 178-179: P(X) - P(X - eps) and Q(X) - Q(X - eps) *)
kl_div_cdfs(Xd, P, Q, e, num_instab) ==
    kl_div_diffs(P, Q, e,
        Arr([i \in 1..Len(Xd) |-> FSub(cdf(P, Xd[i]), cdf(P, FSub(Xd[i], e)))]),
        Arr([i \in 1..Len(Xd) |-> FSub(cdf(Q, Xd[i]), cdf(Q, FSub(Xd[i], e)))]),
        num_instab)

(* kl_div, lines 170-176: the domain of Q is stretched to the left by eps *)
(* the domain of Q not extended below the pooled minimum *)
kl_div_domain_unextended(Xa, Ya, e, num_instab) ==
    kl_div_cdfs(Xa.data,
                ecdf(Xa, None, None),
                ecdf(Ya, Some(SeqMin(Xa.data \o Ya.data)),
                         Some(SeqMax(Xa.data \o Ya.data))),
                e, num_instab)

kl_div_domain(Xa, Ya, e, num_instab) ==
    kl_div_cdfs(Xa.data,
                ecdf(Xa, None, None),
                ecdf(Ya, Some(FSub(SeqMin(Xa.data \o Ya.data), e)),
                         Some(SeqMax(Xa.data \o Ya.data))),
                e, num_instab)

(* the default eps taken as the smallest gap itself, not halved *)
kl_div_eps_gap(Xa, Ya, gaps, num_instab) ==
    IF gaps = <<>>
    THEN [raised |-> "ValueError", value |-> NaN, printed |-> <<>>,
          dP |-> <<>>, dQ |-> <<>>, eps |-> None, n |-> 0,
          callerX |-> Xa.data, callerY |-> Ya.data]
    ELSE kl_div_domain(Xa, Ya, SeqMin(gaps), num_instab)

(* kl_div, lines 160-168: the default eps is half the smallest gap between *)
(* distinct values of X or of Y; the minimum of no gaps raises             *)
kl_div_eps(Xa, Ya, gaps, num_instab) ==
    IF gaps = <<>>
    THEN [raised |-> "ValueError", value |-> NaN, printed |-> <<>>,
          dP |-> <<>>, dQ |-> <<>>, eps |-> None, n |-> 0,
          callerX |-> Xa.data, callerY |-> Ya.data]
    ELSE kl_div_domain(Xa, Ya, FDiv(SeqMin(gaps), R(2)), num_instab)

(* kl_div, lines 157-168, on the copies of X and Y *)
kl_div_copies(Xa, Ya, eps, num_instab) ==
    IF eps = None
    THEN kl_div_eps(Xa, Ya, diff(unique(Xa.data)) \o diff(unique(Ya.data)), num_instab)
    ELSE kl_div_domain(Xa, Ya, eps[1], num_instab)

(* kl_div with epsilon retained from the call before, if that was a call *)
(* of kl_div                                                               *)
kl_div_retained(Xarg, Yarg, eps, num_instab) ==
    kl_div_copies(asarray_copy(Xarg), asarray_copy(Yarg),
                  IF Len(kept) > 0 /\ Last(kept).call.fn = "kl_div"
                  THEN Last(kept).call.eps ELSE eps,
                  num_instab)

(* kl_div(X, Y, eps, num_instab): outcome, printed output, the locals dP,  *)
(* dQ, eps and n, and what the caller's arrays hold afterwards             *)
kl_div(Xarg, Yarg, eps, num_instab) ==
    kl_div_copies(asarray_copy(Xarg), asarray_copy(Yarg), eps, num_instab)

----------------------------------------------------------------------------
(* scipy_estimator: k nearest neighbour estimator.  Extended numbers:      *)
(* <<1, 0>> is +inf, <<-1, 0>> is -inf, <<0, 0>> is nan.                   *)

Inf == <<1, 0>>
MinusInf == <<-1, 0>>
NaNv == <<0, 0>>
IsFinite(a) == a[2] # 0

(* float64 division of two non-negative extended numbers *)
XDiv(a, b) ==
    IF a = NaNv \/ b = NaNv THEN NaNv
    ELSE IF a = Inf THEN (IF b = Inf THEN NaNv ELSE Inf)
    ELSE IF b = Inf THEN Zero
    ELSE IF b = Zero THEN (IF a = Zero THEN NaNv ELSE Inf)
    ELSE FDiv(a, b)

(* X.reshape(-1, 1): N points of dimension 1 *)
reshape(a) == [shape |-> <<Len(a), 1>>, pts |-> a]
(* X.reshape(-1, 2): N/2 points of dimension 2 *)
reshape2(a) == [shape |-> <<Len(a) \div 2, 2>>, pts |-> a]
(* X itself: a one-dimensional array *)
flat(a) == [shape |-> <<Len(a)>>, pts |-> a]
Shaped(a, layout) ==
    IF layout = "flat" THEN flat(a)
    ELSE IF layout = "column" THEN reshape(a) ELSE reshape2(a)

verify_sample_shapes(s1, s2, k) ==
    /\ Len(s1.shape) = 2 /\ Len(s2.shape) = 2
    /\ s1.shape[2] = s2.shape[2]

(* KDTree(pts).query(p, k): the distances from p to its k nearest points,  *)
(* ascending, inf where pts has fewer than k points                        *)
Dist(p, q) == IF RLe(q, p) THEN FSub(p, q) ELSE FSub(q, p)

query(pts, p, k) ==
    LET d == Sort(Arr([i \in 1..Len(pts) |-> Dist(p, pts[i])]))
    IN  Arr([j \in 1..k |-> IF j <= Len(d) THEN d[j] ELSE Inf])

(* np.sum(np.log(ratios)) and its use in D; ratios are extended numbers >= 0 *)
LogIsNaN(r) == r = NaNv
LogIsPlusInf(r) == r = Inf
LogIsMinusInf(r) == r = Zero

(* scipy_estimator, line 247: max(D, 0) for D = log(m/(n-1)) plus          *)
(* (d/n) * sum(log(ratio))                                                 *)
scipy_value(ratio, n, m, d) ==
    LET anyNaN == \E i \in 1..n : LogIsNaN(ratio[i])
        anyPlus == \E i \in 1..n : LogIsPlusInf(ratio[i])
        anyMinus == \E i \in 1..n : LogIsMinusInf(ratio[i])
    IN  IF anyNaN \/ (anyPlus /\ anyMinus) THEN NaN
        ELSE IF anyPlus THEN PlusInf
        ELSE IF anyMinus THEN Num(Zero, <<>>, n)    \* max(-inf, 0)
        ELSE Num(Zero,
                 <<Term(One, FDiv(R(m), R(n - 1)))>>
                 \o Arr([i \in 1..n |-> Term(FDiv(d, R(n)), ratio[i])]),
                 n)

(* the ratios with rho taken from KDTree(s1).query(s1, k): the point       *)
(* itself counted among its neighbours                                     *)
scipy_ratio_self(s1, s2, k) ==
    Arr([i \in 1..Len(s1) |->
            XDiv(Last(query(s2, s1[i], k)), Last(query(s1, s1[i], k)))])

(* scipy_estimator, lines 238-245: nu_d / rho_d[::, -1]; nu_d is           *)
(* one-dimensional when k = 1                                              *)
scipy_ratio(s1, s2, k) ==
    Arr([i \in 1..Len(s1) |->
            XDiv(IF k > 1 THEN Last(query(s2, s1[i], k)) ELSE query(s2, s1[i], k)[1],
                 Last(query(s1, s1[i], k + 1)))])

(* scipy_estimator, lines 238-247, with the ratios nu_d / rho_d[::, -1] *)
scipy_D(ratio, n, m, d) ==
    [raised |-> "none", queried |-> TRUE, ratio |-> ratio,
     value |-> scipy_value(ratio, n, m, d)]

(* scipy_estimator without the call of verify_sample_shapes; a 1-D array *)
(* has no shape[1]                                                       *)
scipy_estimator_unverified(s1arg, s2arg, k) ==
    IF Len(s1arg.shape) < 2
    THEN [raised |-> "IndexError", value |-> NaN, queried |-> FALSE, ratio |-> <<>>]
    ELSE IF Len(s1arg.pts) - 1 = 0
    THEN [raised |-> "ZeroDivisionError", value |-> NaN, queried |-> FALSE,
          ratio |-> <<>>]
    ELSE scipy_D(scipy_ratio(s1arg.pts, s2arg.pts, k),
                 Len(s1arg.pts), Len(s2arg.pts), R(s1arg.shape[2]))

(* scipy_estimator(s1, s2, k): outcome, and whether the KDTree queries of  *)
(* lines 238-239 were reached                                              *)
scipy_estimator(s1arg, s2arg, k) ==
    IF ~verify_sample_shapes(s1arg, s2arg, k)
    THEN [raised |-> "AssertionError", value |-> NaN, queried |-> FALSE,
          ratio |-> <<>>]
    ELSE IF Len(s1arg.pts) - 1 = 0
    THEN [raised |-> "ZeroDivisionError", value |-> NaN,   \* m / (n - 1)
          queried |-> FALSE, ratio |-> <<>>]
    ELSE scipy_D(scipy_ratio(s1arg.pts, s2arg.pts, k),
                 Len(s1arg.pts), Len(s2arg.pts), R(s1arg.shape[2]))

----------------------------------------------------------------------------
(* kl_div_bin: binned estimator *)

(* KBinsDiscretizer(n_bins, encode="ordinal", strategy).fit(X): the bin     *)
(* edges.  A constant feature gets the single bin (-inf, inf).            *)
linspace(lo, hi, num) ==
    Arr([j \in 1..(num + 1) |->
            IF j - 1 = num THEN hi
            ELSE FAdd(lo, FMul(R(j - 1), FDiv(FSub(hi, lo), R(num))))])

(* np.percentile(column, 100 * j / num), linear interpolation *)
percentile(col, j, num) ==
    LET srt == Sort(col)
        pos == RMul(<<j, num>>, R(Len(srt) - 1))      \* virtual index
        lo == pos[1] \div pos[2]
        frac == RSub(pos, R(lo))
    IN  IF frac = Zero THEN srt[lo + 1]
        ELSE FAdd(srt[lo + 1], FMul(Fl(frac), FSub(srt[lo + 2], srt[lo + 1])))

(* edges closer than 1e-8 to the previous one are removed *)
RECURSIVE DropNarrow(_)
DropNarrow(e) ==
    IF Len(e) <= 1 THEN e
    ELSE LET rest == DropNarrow(Tail(e))
         IN  IF e[1] = rest[1] THEN rest ELSE <<e[1]>> \o rest

KBins_fit(col, n_bins, strategy) ==
    LET lo == SeqMin(col)
        hi == SeqMax(col)
    IN  IF lo = hi THEN <<MinusInf, Inf>>
        ELSE IF strategy = "uniform" THEN linspace(lo, hi, n_bins)
        ELSE DropNarrow(Arr([j \in 1..(n_bins + 1) |-> percentile(col, j - 1, n_bins)]))

(* transform: np.searchsorted(edges[1:-1], x, side="right") *)
KBins_transform(edges, col) ==
    Arr([i \in 1..Len(col) |->
            Cardinality({j \in 2..(Len(edges) - 1) : RLe(edges[j], col[i])})])

CountEq(binned, b) == Cardinality({i \in 1..Len(binned) : binned[i] = b})

(* the loop with the message of an empty bin printed whatever verbose is *)
RECURSIVE BinLoop_print(_, _, _, _, _, _)
BinLoop_print(X_binned, Y_binned, n_x, n_y, verbose, i) ==
    IF i = 0 THEN [nan |-> FALSE, terms |-> <<>>, log |-> <<>>]
    ELSE
    LET acc == BinLoop_print(X_binned, Y_binned, n_x, n_y, verbose, i - 1)
        y_count == CountEq(Y_binned, i - 1)
        x_count == CountEq(X_binned, i - 1)
        p == FDiv(R(x_count), R(n_x))
        q == FDiv(R(y_count), R(n_y))
    IN  IF y_count = 0
        THEN [acc EXCEPT !.log = @ \o <<[msg |-> "Empty bin for Y - value omitted", bin |-> i - 1]>>]
        ELSE IF x_count = 0
        THEN [acc EXCEPT !.nan = TRUE]
        ELSE [acc EXCEPT !.terms = @ \o <<Term(p, FDiv(p, q))>>]

(* the loop of kl_div_bin over the bins 0..i-1: [nan, terms, log] *)
RECURSIVE BinLoop(_, _, _, _, _, _)
BinLoop(X_binned, Y_binned, n_x, n_y, verbose, i) ==
    IF i = 0 THEN [nan |-> FALSE, terms |-> <<>>, log |-> <<>>]
    ELSE
    LET acc == BinLoop(X_binned, Y_binned, n_x, n_y, verbose, i - 1)
        y_count == CountEq(Y_binned, i - 1)
        x_count == CountEq(X_binned, i - 1)
        p == FDiv(R(x_count), R(n_x))
        q == FDiv(R(y_count), R(n_y))
    IN  IF y_count = 0
        THEN [acc EXCEPT !.log = IF verbose
                                 THEN @ \o <<[msg |-> "Empty bin for Y - value omitted", bin |-> i - 1]>>
                                 ELSE @]
        ELSE IF x_count = 0
        THEN [acc EXCEPT !.nan = TRUE]              \* 0 * log(0) is nan
        ELSE [acc EXCEPT !.terms = @ \o <<Term(p, FDiv(p, q))>>]

(* kl_div_bin, line 282: max(0, result); a nan result gives 0 *)
kl_div_bin_result(n_x, X_binned, Y_binned, loop) ==
    [raised |-> "none",
     value |-> IF loop.nan THEN Num(Zero, <<>>, n_x) ELSE Num(Zero, loop.terms, n_x),
     printed |-> loop.log,
     X_binned |-> X_binned, Y_binned |-> Y_binned]

(* kl_div_bin, lines 270-281, on the binned samples *)
kl_div_bin_loop(n_x, n_y, X_binned, Y_binned, n_bins, verbose) ==
    kl_div_bin_result(n_x, X_binned, Y_binned,
                      BinLoop(X_binned, Y_binned, n_x, n_y, verbose, n_bins))

(* kl_div_bin, lines 267-268: fit_transform(X) and transform(Y) *)
kl_div_bin_edges(Xp, Yp, edges, n_bins, verbose) ==
    kl_div_bin_loop(Len(Xp), Len(Yp),
                    KBins_transform(edges, Xp), KBins_transform(edges, Yp),
                    n_bins, verbose)

kl_div_bin(Xarg, Yarg, n_bins, strategy, verbose) ==
    kl_div_bin_edges(Xarg.pts, Yarg.pts, KBins_fit(Xarg.pts, n_bins, strategy),
                     n_bins, verbose)

----------------------------------------------------------------------------
(* mutual_info_classif_mixed (mutual_information notebook): X holds the     *)
(* feature x, Y the labels y; the null marker is nan.                      *)

IsNull(v) == v = NaNv

mean01(s) == FDiv(R(Cardinality({i \in 1..Len(s) : s[i] = 1})), R(Len(s)))

(* pd.Series(x) of a plain sequence gets the labels 0..n-1; a Series keeps *)
(* its own index (lines 102-106)                                            *)
IndexKinds == {"plain", "range", "reversed", "shifted"}

IndexOf(kind, n) ==
    Arr([i \in 1..n |-> IF kind = "reversed" THEN n - i
                        ELSE IF kind = "shifted" THEN 10 + i - 1
                        ELSE i - 1])

(* series[mask] with a boolean Series mask: a mask whose index differs     *)
(* from the series' index is aligned on the labels first; a label of the   *)
(* series missing from the mask raises IndexingError.  The positions of    *)
(* the series that are kept.                                               *)
bool_index(index, mask_index, mask) ==
    IF mask_index = index THEN [raised |-> "none", pos |-> Where(mask, 1)]
    ELSE IF \E j \in 1..Len(index) : \A i \in 1..Len(mask_index) : mask_index[i] # index[j]
    THEN [raised |-> "IndexingError", pos |-> <<>>]
    ELSE [raised |-> "none",
          pos |-> Where(Arr([j \in 1..Len(index) |->
                               mask[CHOOSE i \in 1..Len(mask_index) :
                                        mask_index[i] = index[j]]]), 1)]

Take(s, pos) == Arr([j \in 1..Len(pos) |-> s[pos[j]]])

(* sklearn's mutual_info_classif(feature[:, None], labels,                 *)
(* discrete_features)[0]: a black box, except that check_X_y rejects an    *)
(* empty sample, a nan, and samples of different lengths                   *)
mutual_info_classif(feature, labels, discrete_features) ==
    IF \/ Len(feature) = 0
       \/ Len(feature) # Len(labels)
       \/ ~discrete_features /\ \E i \in 1..Len(feature) : IsNull(feature[i])
    THEN [raised |-> "ValueError",
          args |-> [feature |-> feature, labels |-> labels,
                    discrete_features |-> discrete_features]]
    ELSE [raised |-> "none",
          args |-> [feature |-> feature, labels |-> labels,
                    discrete_features |-> discrete_features]]

(* lines 109-112: x.isna() or x == special_code (nan == c is False) *)
indicator(x, special_code) ==
    IF special_code = None
    THEN Arr([i \in 1..Len(x) |-> IF IsNull(x[i]) THEN 1 ELSE 0])
    ELSE Arr([i \in 1..Len(x) |->
                IF ~IsNull(x[i]) /\ x[i] = special_code[1] THEN 1 ELSE 0])

(* line 128 with the weight mean(x_d) *)
mi_return_missing(x_d, x_pos, y_pos, x_c, y_c, mi_d, mi_c) ==
    [raised |-> "none", x_d |-> x_d, x_pos |-> x_pos, y_pos |-> y_pos,
     x_c |-> x_c, y_c |-> y_c, calls |-> <<mi_d.args, mi_c.args>>,
     weight |-> mean01(x_d)]

(* line 128: mi_d + (1 - x_d.mean()) * mi_c *)
mi_return(x_d, x_pos, y_pos, x_c, y_c, mi_d, mi_c) ==
    [raised |-> "none", x_d |-> x_d, x_pos |-> x_pos, y_pos |-> y_pos,
     x_c |-> x_c, y_c |-> y_c, calls |-> <<mi_d.args, mi_c.args>>,
     weight |-> FSub(One, mean01(x_d))]

(* lines 119-126: the two calls of the base estimator, in this order *)
mi_calls(x_d, x_pos, y_pos, x_c, y_c, mi_d, mi_c) ==
    IF mi_d.raised # "none"
    THEN [raised |-> mi_d.raised, x_d |-> x_d, x_pos |-> x_pos, y_pos |-> y_pos,
          x_c |-> x_c, y_c |-> y_c, calls |-> <<mi_d.args>>, weight |-> NaNv]
    ELSE IF mi_c.raised # "none"
    THEN [raised |-> mi_c.raised, x_d |-> x_d, x_pos |-> x_pos, y_pos |-> y_pos,
          x_c |-> x_c, y_c |-> y_c, calls |-> <<mi_d.args, mi_c.args>>, weight |-> NaNv]
    ELSE mi_return(x_d, x_pos, y_pos, x_c, y_c, mi_d, mi_c)

(* lines 115-116: x_c = x[x_d == 0], y_c = y[x_d == 0] *)
mi_partition(x, y, x_d, xsel, ysel) ==
    IF ysel.raised # "none"
    THEN [raised |-> ysel.raised, x_d |-> x_d, x_pos |-> xsel.pos, y_pos |-> <<>>,
          x_c |-> Take(x, xsel.pos), y_c |-> <<>>, calls |-> <<>>, weight |-> NaNv]
    ELSE mi_calls(x_d, xsel.pos, ysel.pos, Take(x, xsel.pos), Take(y, ysel.pos),
                  mutual_info_classif(x_d, y, TRUE),
                  mutual_info_classif(Take(x, xsel.pos), Take(y, ysel.pos), FALSE))

mi_indicator(x, xindex, y, yindex, x_d) ==
    mi_partition(x, y, x_d,
                 bool_index(xindex, xindex, Arr([i \in 1..Len(x) |-> x_d[i] = 0])),
                 bool_index(yindex, xindex, Arr([i \in 1..Len(x) |-> x_d[i] = 0])))

mutual_info_classif_mixed(x, xkind, y, ykind, special_code) ==
    mi_indicator(x, IndexOf(xkind, Len(x)), y, IndexOf(ykind, Len(y)),
                 indicator(x, special_code))

----------------------------------------------------------------------------
(* The notebook sessions: samples are drawn, then functions are called on  *)
(* them one after the other.  nb is the part of the notebooks the session *)
(* runs: "cdf" (one sample; rle and ecdf), "kl" (two samples; kl_div and   *)
(* kl_div_bin), "knn" (two samples; scipy_estimator) or "mi" (feature and  *)
(* labels; mutual_info_classif_mixed).                                     *)

Vals == {R(0), R(8), R(9), R(16)}
ValsY == {R(0), R(9), R(16)}
ValsKNN == {R(0), R(8), R(9)}
ValsKNN2 == {R(0), R(9)}
ValsCDF == {R(0), Norm(3, 2), R(8), R(16)}
SpecialCode == R(-999)
FeatureVals == {R(1), SpecialCode, NaNv}
Labels == {R(0), R(1)}

SeqsUpTo(S, n) == UNION {[1..k -> S] : k \in 1..n}

NoCall == [fn |-> "none"]
NoRet == [kind |-> "none"]
NoLoc == [fn |-> "none"]

InitCDF ==
    /\ nb = "cdf"
    /\ X \in SeqsUpTo(ValsCDF, MaxLen)
    /\ Y = <<>>

InitKL ==
    /\ nb = "kl"
    /\ X \in SeqsUpTo(Vals, MaxLenKL)
    /\ Y \in SeqsUpTo(ValsY, MaxLenKL)

InitKNN ==
    /\ nb = "knn"
    /\ X \in SeqsUpTo(ValsKNN, MaxLenKNN)
    /\ Y \in SeqsUpTo(ValsKNN2, MaxLenKL)

InitMI ==
    /\ nb = "mi"
    /\ X \in SeqsUpTo(FeatureVals, MaxLen)
    /\ Y \in [1..Len(X) -> Labels]

Init ==
    /\ prec = MantBits
    /\ InitCDF \/ InitKL \/ InitKNN \/ InitMI
    /\ pc = "idle"
    /\ call = NoCall
    /\ ret = NoRet
    /\ out = <<>>
    /\ loc = NoLoc
    /\ kept = <<>>

Raised(exc) == [kind |-> "raised", exc |-> exc]

Call_rle ==
    /\ pc = "idle" /\ nb = "cdf"
    /\ \E inarray \in {X, Sort(X)} :
         /\ call' = [fn |-> "rle", inarray |-> inarray]
         /\ ret' = rle(inarray)
    /\ pc' = "returned"
    /\ out' = <<>>
    /\ loc' = NoLoc
    /\ UNCHANGED <<kept, prec, nb, X, Y>>

Bounds == {None} \cup {Some(R(b)) : b \in {-1, 0, 8, 16, 17}}

Call_ecdf ==
    /\ pc = "idle" /\ nb = "cdf"
    /\ \E X_min \in Bounds, X_max \in Bounds :
         \E F \in {ecdf(Caller(X), X_min, X_max)} :
             /\ call' = [fn |-> "ecdf", X_min |-> X_min, X_max |-> X_max]
             /\ ret' = [kind |-> "cdf", xp |-> F.xp, fp |-> F.fp]
             /\ X' = F.caller
    /\ pc' = "returned"
    /\ out' = <<>>
    /\ loc' = NoLoc
    /\ UNCHANGED <<kept, prec, nb, Y>>

EpsArgs == {None, Some(Zero), Some(R(1))}

Call_kl_div ==
    /\ pc = "idle" /\ nb = "kl"
    /\ \E eps \in EpsArgs, num_instab \in {"warning", "ignore"} :
         \E r \in {kl_div(Caller(X), Caller(Y), eps, num_instab)} :
             /\ call' = [fn |-> "kl_div", eps |-> eps, num_instab |-> num_instab]
             /\ ret' = IF r.raised # "none" THEN Raised(r.raised) ELSE r.value
             /\ out' = r.printed
             /\ loc' = [fn |-> "kl_div", eps |-> r.eps, dP |-> r.dP, dQ |-> r.dQ, n |-> r.n]
             /\ X' = r.callerX
             /\ Y' = r.callerY
    /\ pc' = "returned"
    /\ UNCHANGED <<kept, prec, nb>>

Layouts1 == {"flat", "column"}
Layouts2 == {"flat", "column", "pairs"}

Call_scipy_estimator ==
    /\ pc = "idle" /\ nb = "knn"
    /\ \E k \in 1..MaxK, l1 \in Layouts1, l2 \in Layouts2 :
         /\ l2 = "pairs" => Len(Y) % 2 = 0
         /\ \E r \in {scipy_estimator(Shaped(X, l1), Shaped(Y, l2), k)} :
             /\ call' = [fn |-> "scipy_estimator", k |-> k,
                         shape1 |-> Shaped(X, l1).shape, shape2 |-> Shaped(Y, l2).shape]
             /\ ret' = IF r.raised # "none" THEN Raised(r.raised) ELSE r.value
             /\ loc' = [fn |-> "scipy_estimator", queried |-> r.queried,
                        ratio |-> r.ratio]
    /\ pc' = "returned"
    /\ out' = <<>>
    /\ UNCHANGED <<kept, prec, nb, X, Y>>

Call_kl_div_bin ==
    /\ pc = "idle" /\ nb = "kl"
    /\ \E n_bins \in 2..MaxBins, strategy \in {"quantile", "uniform"}, verbose \in BOOLEAN :
         \E r \in {kl_div_bin(reshape(X), reshape(Y), n_bins, strategy, verbose)} :
             /\ call' = [fn |-> "kl_div_bin", n_bins |-> n_bins,
                         strategy |-> strategy, verbose |-> verbose]
             /\ ret' = r.value
             /\ out' = r.printed
             /\ loc' = [fn |-> "kl_div_bin", X_binned |-> r.X_binned, Y_binned |-> r.Y_binned]
    /\ pc' = "returned"
    /\ UNCHANGED <<kept, prec, nb, X, Y>>

Call_mutual_info_classif_mixed ==
    /\ pc = "idle" /\ nb = "mi"
    /\ \E special_code \in {None, Some(SpecialCode)}, xkind \in IndexKinds, ykind \in IndexKinds :
         \E r \in {mutual_info_classif_mixed(X, xkind, Y, ykind, special_code)} :
             /\ call' = [fn |-> "mutual_info_classif_mixed", special_code |-> special_code,
                         xindex |-> IndexOf(xkind, Len(X)), yindex |-> IndexOf(ykind, Len(Y))]
             /\ ret' = IF r.raised # "none" THEN Raised(r.raised)
                       ELSE [kind |-> "mi", mi_d |-> r.calls[1], weight |-> r.weight,
                             mi_c |-> r.calls[2]]
             /\ loc' = [fn |-> "mutual_info_classif_mixed", x_d |-> r.x_d,
                        x_pos |-> r.x_pos, y_pos |-> r.y_pos,
                        x_c |-> r.x_c, y_c |-> r.y_c, calls |-> r.calls]
    /\ pc' = "returned"
    /\ out' = <<>>
    /\ UNCHANGED <<kept, prec, nb, X, Y>>

Return ==
    /\ pc = "returned"
    /\ pc' = "idle"
    /\ call' = NoCall
    /\ ret' = NoRet
    /\ out' = <<>>
    /\ loc' = NoLoc
    /\ UNCHANGED <<kept, prec, nb, X, Y>>

(* The comparison loop (lines 497-511): the caller runs the estimators on *)
(* the same samples again and again, in any order, and appends each       *)
(* result to the results it holds; it also holds the functions ecdf has    *)
(* built.  Arguments as in the loop: num_instab = "ignore", k = 1.         *)
LoopSamples == {<<R(0)>>, <<R(9)>>, <<R(0), R(9)>>, <<R(9), R(0)>>,
                <<R(0), R(0)>>, <<R(8), R(9)>>}

InitLoop ==
    /\ prec = MantBits
    /\ nb = "loop"
    /\ X \in LoopSamples
    /\ Y \in LoopSamples
    /\ pc = "idle"
    /\ call = NoCall
    /\ ret = NoRet
    /\ out = <<>>
    /\ loc = NoLoc
    /\ kept = <<>>

Loop_ecdf ==
    /\ pc = "idle" /\ nb = "loop" /\ Len(kept) < MaxRuns
    /\ \E X_min \in {None, Some(R(-1))} :
         \E F \in {ecdf(Caller(X), X_min, None)} :
             /\ kept' = Append(kept, [call |-> [fn |-> "ecdf", X_min |-> X_min, X_max |-> None],
                                      ret |-> [kind |-> "cdf", xp |-> F.xp, fp |-> F.fp]])
             /\ X' = F.caller
    /\ UNCHANGED <<prec, nb, Y, pc, call, ret, out, loc>>

Loop_kl_div ==
    /\ pc = "idle" /\ nb = "loop" /\ Len(kept) < MaxRuns
    /\ \E eps \in {None, Some(R(1))} :
         \E r \in {kl_div(Caller(X), Caller(Y), eps, "ignore")} :
             /\ kept' = Append(kept, [call |-> [fn |-> "kl_div", eps |-> eps,
                                                num_instab |-> "ignore"],
                                      ret |-> IF r.raised # "none" THEN Raised(r.raised)
                                              ELSE r.value])
             /\ X' = r.callerX
             /\ Y' = r.callerY
    /\ UNCHANGED <<prec, nb, pc, call, ret, out, loc>>

Loop_scipy_estimator ==
    /\ pc = "idle" /\ nb = "loop" /\ Len(kept) < MaxRuns
    /\ \E r \in {scipy_estimator(reshape(X), reshape(Y), 1)} :
         kept' = Append(kept, [call |-> [fn |-> "scipy_estimator", k |-> 1],
                               ret |-> IF r.raised # "none" THEN Raised(r.raised)
                                       ELSE r.value])
    /\ UNCHANGED <<prec, nb, X, Y, pc, call, ret, out, loc>>

Loop_kl_div_bin ==
    /\ pc = "idle" /\ nb = "loop" /\ Len(kept) < MaxRuns
    /\ \E r \in {kl_div_bin(reshape(X), reshape(Y), 2, "quantile", FALSE)} :
         kept' = Append(kept, [call |-> [fn |-> "kl_div_bin", n_bins |-> 2,
                                         strategy |-> "quantile", verbose |-> FALSE],
                               ret |-> r.value])
    /\ UNCHANGED <<prec, nb, X, Y, pc, call, ret, out, loc>>

NextLoop ==
    \/ Loop_ecdf
    \/ Loop_kl_div
    \/ Loop_scipy_estimator
    \/ Loop_kl_div_bin

SpecLoop == InitLoop /\ [][NextLoop]_vars

(* The same kl_div calls with no rounding: arithmetic on exact fractions *)
InitExact ==
    /\ prec = 0
    /\ InitKL
    /\ pc = "idle"
    /\ call = NoCall
    /\ ret = NoRet
    /\ out = <<>>
    /\ loc = NoLoc
    /\ kept = <<>>

NextExact ==
    \/ Call_kl_div
    \/ Return

SpecExact == InitExact /\ [][NextExact]_vars

Next ==
    \/ Call_rle
    \/ Call_ecdf
    \/ Call_kl_div
    \/ Call_scipy_estimator
    \/ Call_kl_div_bin
    \/ Call_mutual_info_classif_mixed
    \/ Return

Spec == Init /\ [][Next]_vars

----------------------------------------------------------------------------
(* Properties *)

Returned(fn) == pc = "returned" /\ call.fn = fn
Estimators == {"kl_div", "scipy_estimator", "kl_div_bin"}
EstimateReturned == pc = "returned" /\ call.fn \in Estimators /\ ret.kind # "raised"

(* the estimate is the number 0: max(c, 0) with no logarithm and c <= 0 *)
ReturnsZero(v) == v.kind = "num" /\ v.terms = <<>> /\ RLe(v.c, Zero)

(* C1: every estimate returned by kl_div, scipy_estimator or kl_div_bin is *)
(* a number >= 0 (a floored number or +inf), never nan.                    *)
C1_NonNegative == EstimateReturned => ret.kind \in {"num", "inf"}

(* both samples are N x D arrays with the same D *)
ShapesMatch ==
    /\ Len(call.shape1) = 2 /\ Len(call.shape2) = 2
    /\ call.shape1[2] = call.shape2[2]

(* C2: no estimator call on non-empty samples of matching dimensionality   *)
(* ends with an exception.                                                 *)
C2_NeverRaises ==
    (/\ pc = "returned" /\ call.fn \in Estimators
     /\ call.fn = "scipy_estimator" => ShapesMatch) => ret.kind # "raised"

(* C3: when kl_div found dQ = 0 at every point of X, it returns exactly 0. *)
AllDQZero ==
    /\ Returned("kl_div") /\ ret.kind # "raised"
    /\ \A i \in 1..Len(loc.dQ) : loc.dQ[i] = Zero
C3_TotalDegeneracyZero == AllDQZero => ReturnsZero(ret)

(* values[i] repeated lengths[i] times, for i in order *)
RECURSIVE Repeat(_, _)
Repeat(v, k) == IF k = 0 THEN <<>> ELSE <<v>> \o Repeat(v, k - 1)
RECURSIVE Decode(_, _, _)
Decode(z, v, j) ==
    IF j > Len(z) THEN <<>> ELSE Repeat(v[j], z[j]) \o Decode(z, v, j + 1)

RleOfSorted == Returned("rle") /\ call.inarray = Sort(call.inarray)

(* C4: decoding the run lengths and values rle returned for a sorted array *)
(* gives the array back.                                                   *)
C4_RoundTrip == RleOfSorted => Decode(ret.z, ret.v, 1) = call.inarray
C4_Witness == RleOfSorted /\ Len(ret.z) >= 2 /\ \E j \in 1..Len(ret.z) : ret.z[j] >= 2

(* C5: for a sorted array rle returns three sequences of one length, run   *)
(* lengths >= 1 that sum to the length of the array, positions that start  *)
(* at 0 and advance by the run length, and strictly increasing values.     *)
C5_RleInvariants ==
    RleOfSorted =>
        LET r == Len(ret.z)
        IN  /\ Len(ret.p) = r /\ Len(ret.v) = r
            /\ \A j \in 1..r : ret.z[j] \in Nat /\ ret.z[j] >= 1
            /\ SumTo(ret.z, r) = Len(call.inarray)
            /\ ret.p[1] = 0
            /\ \A j \in 1..(r - 1) : ret.p[j + 1] = ret.p[j] + ret.z[j]
            /\ \A j \in 1..r : call.inarray[ret.p[j] + 1] = ret.v[j]
            /\ \A j \in 1..(r - 1) : RLt(ret.v[j], ret.v[j + 1])
C5_Witness == RleOfSorted /\ Len(ret.z) = 2 /\ ret.z[1] = 2 /\ ret.p = <<0, 2>>

(* the supplied bounds lie strictly outside the range of the sample *)
BoundsOutside ==
    /\ call.X_min = None \/ RLt(call.X_min[1], SeqMin(X))
    /\ call.X_max = None \/ RLt(SeqMax(X), call.X_max[1])

Below(v) == Cardinality({i \in 1..Len(X) : RLt(X[i], v)})
Equal(v) == Cardinality({i \in 1..Len(X) : X[i] = v})

(* C6: with bounds absent or strictly outside the sample range, the        *)
(* function ecdf returned takes at each sample value v, of multiplicity m  *)
(* at sorted ranks [k, k+m), the value (k + m/2)/n.                        *)
C6_MidStepExact ==
    (Returned("ecdf") /\ BoundsOutside) =>
        \A i \in 1..Len(X) :
            cdf(ret, X[i]) = Fl(<<2 * Below(X[i]) + Equal(X[i]), 2 * Len(X)>>)
C6_Witness ==
    /\ Returned("ecdf") /\ BoundsOutside
    /\ call.X_min # None /\ call.X_max # None
    /\ \E i \in 1..Len(X) : Below(X[i]) = 1 /\ Equal(X[i]) = 2

(* floating-point numbers at which a returned function is evaluated: the   *)
(* sample values, the bounds, and the numbers between and around them      *)
ProbeRange == 36
Probes == {Fl(Norm(i, 2)) : i \in (-4)..ProbeRange}
Graph(F) == {<<x, cdf(F, x)>> : x \in Probes}

(* C7: the function ecdf returned is monotone non-decreasing and takes     *)
(* values in [0,1], wherever the bounds lie.                               *)
C7_MonotoneBounded ==
    Returned("ecdf") =>
        LET G == Graph(ret)
        IN  /\ \A g \in G : RLe(Zero, g[2]) /\ RLe(g[2], One)
            /\ \A g \in G : \A h \in G : RLt(g[1], h[1]) => RLe(g[2], h[2])

(* C8 as stated: F = 0 at and below a supplied domain_min and F = 1 at and *)
(* above a supplied domain_max, whatever the value of the bound.           *)
C8_DomainBoundsAny ==
    Returned("ecdf") =>
        \A g \in Graph(ret) :
            /\ (call.X_min # None /\ RLe(g[1], call.X_min[1])) => g[2] = Zero
            /\ (call.X_max # None /\ RLe(call.X_max[1], g[1])) => g[2] = One

(* C8, amended: the same when every supplied bound lies strictly outside   *)
(* the sample range on its own side.                                       *)
C8_DomainBoundsOutside ==
    (Returned("ecdf") /\ BoundsOutside) =>
        \A g \in Graph(ret) :
            /\ (call.X_min # None /\ RLe(g[1], call.X_min[1])) => g[2] = Zero
            /\ (call.X_max # None /\ RLe(call.X_max[1], g[1])) => g[2] = One
C8_Witness ==
    /\ Returned("ecdf") /\ BoundsOutside
    /\ call.X_min = Some(R(-1)) /\ call.X_max = Some(R(17))
    /\ Len(X) = MaxLen
    /\ cdf(ret, R(-1)) = Zero /\ cdf(ret, R(17)) = One

(* C9: no call changes the elements or the order of the caller's samples.  *)
C9_InputsUnchanged == [][X' = X /\ Y' = Y]_vars
C9_Witness ==
    /\ pc = "returned" /\ call.fn \in {"ecdf", "kl_div"} /\ ret.kind # "raised"
    /\ X # Sort(X)

ZeroDQ == Cardinality({i \in 1..Len(loc.dQ) : loc.dQ[i] = Zero})
OtherMode(m) == IF m = "warning" THEN "ignore" ELSE "warning"
Outcome(r) == IF r.raised # "none" THEN Raised(r.raised) ELSE r.value

(* C10: kl_div prints one diagnostic with the number of points where       *)
(* dQ = 0 when num_instab is "warning" and there is such a point; prints   *)
(* nothing when num_instab is "ignore" or there is none; points with       *)
(* dQ = 0 never end the call with an exception; and the outcome is the     *)
(* same under the other mode.                                              *)
C10_InstabilitySignal ==
    Returned("kl_div") =>
        /\ (call.num_instab = "warning" /\ ZeroDQ >= 1) =>
               (Len(out) = 1 /\ out[1].problems = ZeroDQ)
        /\ (call.num_instab = "ignore" \/ ZeroDQ = 0) => out = <<>>
        /\ ZeroDQ >= 1 => ret.kind # "raised"
        /\ ret = Outcome(kl_div(Caller(X), Caller(Y), call.eps,
                                OtherMode(call.num_instab)))
C10_Witness ==
    /\ Returned("kl_div") /\ call.num_instab = "warning"
    /\ ZeroDQ >= 1 /\ ZeroDQ < Len(loc.dQ)
    /\ Len(out) = 1 /\ ret.kind = "num"

KLComputed == Returned("kl_div") /\ ret.kind # "raised"
(* the points of X, in order, with dP # 0 and dQ # 0 *)
KeptPoints ==
    Where(Arr([i \in 1..Len(loc.dP) |-> loc.dP[i] # Zero /\ loc.dQ[i] # Zero]), 1)
ZeroDP == Cardinality({i \in 1..Len(loc.dP) : loc.dP[i] = Zero})

(* C11: the divisor n of kl_div is the number of points with dP # 0 and    *)
(* dQ # 0 plus the number of points with dP = 0; the result is sum/n - 1   *)
(* floored at 0, the sum taking log(dP/dQ) over exactly the points with    *)
(* dP # 0 and dQ # 0 (nan when n = 0 or a ratio is negative).              *)
C11_Normalization ==
    KLComputed =>
        /\ loc.n = Len(KeptPoints) + ZeroDP
        /\ ret.kind \in {"num", "nan"}
        /\ ret.kind = "nan" <=>
               \/ loc.n = 0
               \/ \E j \in 1..Len(KeptPoints) :
                      FDiv(loc.dP[KeptPoints[j]], loc.dQ[KeptPoints[j]])[1] < 0
        /\ ret.kind = "num" =>
               /\ ret.c = R(-1) /\ ret.n = loc.n
               /\ Len(ret.terms) = Len(KeptPoints)
               /\ \A j \in 1..Len(KeptPoints) :
                      /\ ret.terms[j].w = <<1, loc.n>>
                      /\ ret.terms[j].arg =
                             FDiv(loc.dP[KeptPoints[j]], loc.dQ[KeptPoints[j]])
C11_Witness ==
    /\ KLComputed /\ ret.kind = "num"
    /\ ZeroDP >= 1 /\ Len(KeptPoints) >= 1
    /\ \E i \in 1..Len(loc.dP) : loc.dP[i] = Zero /\ loc.dQ[i] = Zero

(* C12: scipy_estimator ends with the AssertionError of                    *)
(* verify_sample_shapes, no KDTree query made and no estimate returned,    *)
(* whenever the samples are not both N x D arrays with the same D; when    *)
(* they are, that check passes.                                            *)
C12_ShapePrecondition ==
    Returned("scipy_estimator") =>
        /\ ~ShapesMatch => (ret = Raised("AssertionError") /\ ~loc.queried)
        /\ ShapesMatch => ret # Raised("AssertionError")
C12_Witness ==
    /\ Returned("scipy_estimator") /\ ret = Raised("AssertionError")
    /\ call.shape1 = <<2, 1>> /\ call.shape2 = <<1, 2>>

(* the distances from s1[i] to the points of pts, ascending *)
SortedDists(p, pts) == Sort(Arr([j \in 1..Len(pts) |-> Dist(p, pts[j])]))
(* s without its element at position i *)
Others(s, i) == SubSeq(s, 1, i - 1) \o SubSeq(s, i + 1, Len(s))
(* every point of S1 has a k-th nearest neighbour in S2 and among the      *)
(* other points of S1                                                      *)
NeighboursExist == call.k <= Len(Y) /\ call.k <= Len(X) - 1
RegularRatio(r) == IsFinite(r) /\ r[1] > 0

(* C13: for k = 1 and k > 1 the ratio scipy_estimator takes the logarithm  *)
(* of at a point p of S1 is nu/rho, nu the distance from p to its k-th     *)
(* nearest point of S2 and rho the distance from p to its k-th nearest     *)
(* among the other points of S1; with all ratios finite and positive the   *)
(* result is max(0, log(m/(n-1)) + (d/n) * sum of log(nu/rho)).            *)
C13_KnnTerms ==
    (Returned("scipy_estimator") /\ loc.queried /\ NeighboursExist) =>
        /\ Len(loc.ratio) = Len(X)
        /\ \A i \in 1..Len(X) :
               loc.ratio[i] = XDiv(SortedDists(X[i], Y)[call.k],
                                   SortedDists(X[i], Others(X, i))[call.k])
        /\ (\A i \in 1..Len(X) : RegularRatio(loc.ratio[i])) =>
               /\ ret.kind = "num" /\ ret.c = Zero
               /\ Len(ret.terms) = Len(X) + 1
               /\ ret.terms[1] = Term(One, FDiv(R(Len(Y)), R(Len(X) - 1)))
               /\ \A i \in 1..Len(X) :
                      ret.terms[i + 1] = Term(FDiv(R(1), R(Len(X))), loc.ratio[i])
C13_Witness ==
    /\ Returned("scipy_estimator") /\ loc.queried /\ NeighboursExist
    /\ call.k = 2 /\ ret.kind = "num" /\ Len(ret.terms) = Len(X) + 1
    /\ \A i \in 1..Len(X) : RegularRatio(loc.ratio[i])

----------------------------------------------------------------------------
(* C14: in kl_div_bin a bin i of 0..n_bins-1 with no point of Y adds no    *)
(* term whatever the count of X is, and prints one line only when verbose  *)
(* is true; every other bin adds p_i * log(p_i / q_i) with                 *)
(* p_i = count(X in bin i) / |X| and q_i = count(Y in bin i) / |Y|, in the *)
(* order of the bins (a term with p_i = 0 evaluates to nan, and the floor  *)
(* max(0, nan) is 0); the value returned is the floored sum and is the    *)
(* same with verbose on or off.                                            *)
BinsOf(n_bins) == 0..(n_bins - 1)

SkippedBins == {b \in BinsOf(call.n_bins) : CountEq(loc.Y_binned, b) = 0}

AddedBins == BinsOf(call.n_bins) \ SkippedBins

NthBin(S, j) == CHOOSE b \in S : Cardinality({a \in S : a < b}) = j - 1

BinP(b) == FDiv(R(CountEq(loc.X_binned, b)), R(Len(X)))

BinQ(b) == FDiv(R(CountEq(loc.Y_binned, b)), R(Len(Y)))

NanTerm == \E b \in AddedBins : CountEq(loc.X_binned, b) = 0

C14_EmptyYBinSkip ==
    Returned("kl_div_bin") =>
        /\ Len(loc.X_binned) = Len(X) /\ Len(loc.Y_binned) = Len(Y)
        /\ Len(out) = IF call.verbose THEN Cardinality(SkippedBins) ELSE 0
        /\ \A j \in 1..Len(out) : out[j].bin = NthBin(SkippedBins, j)
        /\ ret.kind = "num" /\ ret.c = Zero
        /\ NanTerm => ret.terms = <<>>
        /\ ~NanTerm =>
              /\ Len(ret.terms) = Cardinality(AddedBins)
              /\ \A j \in 1..Len(ret.terms) :
                     ret.terms[j] = Term(BinP(NthBin(AddedBins, j)),
                                         FDiv(BinP(NthBin(AddedBins, j)),
                                              BinQ(NthBin(AddedBins, j))))
        /\ ret = kl_div_bin(reshape(X), reshape(Y), call.n_bins, call.strategy,
                            ~call.verbose).value

C14_Witness ==
    /\ Returned("kl_div_bin") /\ call.verbose
    /\ \E b \in SkippedBins : CountEq(loc.X_binned, b) > 0
    /\ Len(out) = 1 /\ ~NanTerm /\ Len(ret.terms) = 1

----------------------------------------------------------------------------
(* C15: when both calls of the base estimator return,                      *)
(* mutual_info_classif_mixed has called it exactly twice, first on         *)
(* (x_d, y) with discrete_features = True (mi_d), then on (x_c, y_c) with  *)
(* discrete_features = False (mi_c), and returns mi_d + w * mi_c with      *)
(* w = 1 - mean(x_d); w lies in [0, 1] and is (number of entries with      *)
(* x_d = 0) / (number of entries), up to the rounding of the division and  *)
(* of the subtraction (exactly, in exact arithmetic).                      *)
MIReturned == Returned("mutual_info_classif_mixed") /\ ret.kind = "mi"

Observed == Cardinality({i \in 1..Len(loc.x_d) : loc.x_d[i] = 0})

RAbs(a) == IF a[1] < 0 THEN <<-a[1], a[2]>> ELSE a

WithinRounding(a, b) ==
    IF prec = 0 THEN a = b ELSE RLe(RAbs(RSub(a, b)), <<1, Pow2(prec)>>)

C15_ChainRule ==
    MIReturned =>
        /\ Len(loc.calls) = 2
        /\ loc.calls[1] = [feature |-> loc.x_d, labels |-> Y, discrete_features |-> TRUE]
        /\ loc.calls[2] = [feature |-> loc.x_c, labels |-> loc.y_c,
                           discrete_features |-> FALSE]
        /\ ret.mi_d = loc.calls[1] /\ ret.mi_c = loc.calls[2]
        /\ ret.weight = FSub(One, mean01(loc.x_d))
        /\ RLe(Zero, ret.weight) /\ RLe(ret.weight, One)
        /\ WithinRounding(ret.weight, Norm(Observed, Len(X)))

C15_Witness ==
    /\ MIReturned /\ Len(X) = 3 /\ Observed = 2
    /\ RLt(Zero, ret.weight) /\ RLt(ret.weight, One)
    /\ Len(loc.x_c) = 2

----------------------------------------------------------------------------
(* C16: for equal-length x and y, plain sequences or Series with any index *)
(* labels, mutual_info_classif_mixed does not raise at the partition, x_c  *)
(* and y_c have the length of the set of positions with x_d = 0, and       *)
(* x_c[j] and y_c[j] come from the same position of x and y, in increasing *)
(* order of position.                                                      *)
MICalled == Returned("mutual_info_classif_mixed")

ObservedPositions == Where(Arr([i \in 1..Len(loc.x_d) |-> loc.x_d[i] = 0]), 1)

Partitioned ==
    /\ ~(ret.kind = "raised" /\ ret.exc = "IndexingError")
    /\ Len(loc.x_c) = Observed /\ Len(loc.y_c) = Observed
    /\ loc.x_pos = ObservedPositions /\ loc.y_pos = ObservedPositions
    /\ \A j \in 1..Observed :
           loc.x_c[j] = X[ObservedPositions[j]] /\ loc.y_c[j] = Y[ObservedPositions[j]]

C16_Partition == MICalled => Partitioned

----------------------------------------------------------------------------
(* C17: x_d is a 0/1 sequence of the length of x, position by position,    *)
(* with x_d[i] = 1 exactly when x[i] equals special_code or x[i] is null;  *)
(* with special_code omitted, x_d[i] = 1 exactly when x[i] is null.        *)
Missing(v) ==
    IF call.special_code = None THEN IsNull(v)
    ELSE IsNull(v) \/ v = call.special_code[1]

C17_Indicator ==
    MICalled =>
        /\ Len(loc.x_d) = Len(X)
        /\ \A i \in 1..Len(X) : loc.x_d[i] = IF Missing(X[i]) THEN 1 ELSE 0

----------------------------------------------------------------------------
(* C18: the estimators keep no state between calls: however the calls of   *)
(* a session are ordered and repeated, every result the caller holds is    *)
(* the value the call gives when it is run alone on the same samples,      *)
(* equal calls have equal results, and every function ecdf built is still  *)
(* the function of the knots it was built with after the later calls.      *)
Alone(c) ==
    IF c.fn = "kl_div"
    THEN Outcome(kl_div_copies(asarray_copy(Caller(X)), asarray_copy(Caller(Y)),
                               c.eps, c.num_instab))
    ELSE IF c.fn = "scipy_estimator"
    THEN Outcome(scipy_estimator(reshape(X), reshape(Y), c.k))
    ELSE IF c.fn = "kl_div_bin"
    THEN kl_div_bin(reshape(X), reshape(Y), c.n_bins, c.strategy, c.verbose).value
    ELSE [kind |-> "cdf",
          xp |-> ecdf_sort(Caller(X), asarray_copy(Caller(X)), c.X_min, c.X_max).xp,
          fp |-> ecdf_sort(Caller(X), asarray_copy(Caller(X)), c.X_min, c.X_max).fp]

----------------------------------------------------------------------------
(* C19: when eps is not supplied and X or Y has two distinct values,       *)
(* kl_div takes eps = (smallest difference of consecutive distinct values  *)
(* of X or of Y) / 2; eps > 0, and for every x of X the interval of the    *)
(* numbers from x - eps to x holds no value of X other than x and at most  *)
(* one distinct value of Y.                                                *)
ValuesOf(s) == {s[i] : i \in 1..Len(s)}

GapsOf(s) ==
    {FSub(b, a) : <<a, b>> \in
        {p \in ValuesOf(s) \X ValuesOf(s) :
            /\ RLt(p[1], p[2])
            /\ ~\E v \in ValuesOf(s) : RLt(p[1], v) /\ RLt(v, p[2])}}

MinOf(S) == CHOOSE m \in S : \A v \in S : RLe(m, v)

Within(v, x, e) == RLe(RSub(x, e), v) /\ RLe(v, x)

DefaultEps ==
    /\ Returned("kl_div") /\ call.eps = None
    /\ Cardinality(ValuesOf(X)) >= 2 \/ Cardinality(ValuesOf(Y)) >= 2

C19_DefaultEpsilon ==
    DefaultEps =>
        /\ loc.eps # None
        /\ loc.eps[1] = FDiv(MinOf(GapsOf(X) \cup GapsOf(Y)), R(2))
        /\ RLt(Zero, loc.eps[1])
        /\ \A i \in 1..Len(X) :
               /\ \A v \in ValuesOf(X) : Within(v, X[i], loc.eps[1]) => v = X[i]
               /\ Cardinality({v \in ValuesOf(Y) : Within(v, X[i], loc.eps[1])}) <= 1

C19_Witness ==
    /\ DefaultEps
    /\ Cardinality(ValuesOf(X)) >= 2 /\ Cardinality(ValuesOf(Y)) >= 2
    /\ MinOf(GapsOf(Y)) # MinOf(GapsOf(X))
    /\ \E i \in 1..Len(X) : \E v \in ValuesOf(Y) : Within(v, X[i], loc.eps[1])

----------------------------------------------------------------------------
(* C20: in exact arithmetic, with domain_min = min(X and Y) - eps and      *)
(* domain_max = max(X and Y), the function Q = ecdf(Y, domain_min,         *)
(* domain_max) is strictly increasing from domain_min to domain_max, and   *)
(* for every eps > 0 and every x of X both x - eps and x lie between the   *)
(* two bounds and dQ = Q(x) - Q(x - eps) > 0: no point has dQ = 0.         *)
DomainMin == RSub(SeqMin(X \o Y), loc.eps[1])

DomainMax == SeqMax(X \o Y)

QKnots == ecdf(Caller(Y), Some(DomainMin), Some(DomainMax))

StrictlyIncreasing(F) ==
    /\ Len(F.xp) = Len(F.fp)
    /\ \A j \in 1..(Len(F.xp) - 1) :
           RLt(F.xp[j], F.xp[j + 1]) /\ RLt(F.fp[j], F.fp[j + 1])

PositiveEps == Returned("kl_div") /\ loc.eps # None /\ RLt(Zero, loc.eps[1])

C20_DomainExtension ==
    PositiveEps =>
        /\ StrictlyIncreasing(QKnots)
        /\ QKnots.xp[1] = DomainMin /\ Last(QKnots.xp) = DomainMax
        /\ Len(loc.dQ) = Len(X)
        /\ \A i \in 1..Len(X) :
               /\ RLe(DomainMin, RSub(X[i], loc.eps[1]))
               /\ RLe(X[i], DomainMax)
               /\ loc.dQ[i] = RSub(cdf(QKnots, X[i]), cdf(QKnots, RSub(X[i], loc.eps[1])))
               /\ RLt(Zero, loc.dQ[i])

C20_Witness ==
    /\ PositiveEps /\ prec = 0
    /\ RLt(SeqMin(X), SeqMin(Y)) /\ RLt(SeqMax(Y), SeqMax(X))
    /\ Len(X) = 2 /\ \A i \in 1..Len(X) : RLt(Zero, loc.dQ[i])

----------------------------------------------------------------------------
(* C21: in kl_div_bin a bin with no point of X and some point of Y adds    *)
(* exactly 0, so the value returned is the floored sum of                  *)
(* p_j * log(p_j / q_j) over the bins j with p_j > 0 and q_j > 0, and it   *)
(* is not reset to 0 when such a bin is present.                           *)
BothBins == {b \in AddedBins : CountEq(loc.X_binned, b) > 0}

C21_EmptyXBinAddsZero ==
    Returned("kl_div_bin") =>
        /\ ret.kind = "num" /\ ret.c = Zero
        /\ Len(ret.terms) = Cardinality(BothBins)
        /\ \A j \in 1..Len(ret.terms) :
               ret.terms[j] = Term(BinP(NthBin(BothBins, j)),
                                   FDiv(BinP(NthBin(BothBins, j)),
                                        BinQ(NthBin(BothBins, j))))

====
